---------------------------- MODULE Spec2Model ----------------------------
(***************************************************************************)
(* Model of pix.py, the "Perfect Pixel Art Generator" Streamlit script.    *)
(*                                                                         *)
(* Streamlit runs the script top to bottom once per user interaction.      *)
(* Spec models the application: the uploaded file and the widget values    *)
(* are the state that survives between runs, every user interaction is an  *)
(* action, and each action ends with one complete run of the script        *)
(* (RunScript), whose outputs are the remaining variables.  At the real    *)
(* control values (16..512 pixels, displays up to 1300) the pixel payload  *)
(* of a buffer is not materialised: a buffer carries its identity, its     *)
(* shape and the expression that produced its contents.                    *)
(*                                                                         *)
(* SpecT models create_perfect_pixel_art as a pure function on small       *)
(* images whose pixels are materialised, so that the two cv2.resize        *)
(* kernels are computed pixel by pixel.                                    *)
(***************************************************************************)
EXTENDS Integers, Sequences, FiniteSets

(***************************************************************************)
(* Program constants (widget declarations and literals of pix.py).         *)
(***************************************************************************)
MinPixels == 16
MaxPixels == 512
PixelStep == 2
DefaultWidth == 90
DefaultHeight == 120
MinMultiplier == 1
MaxMultiplier == 20
DefaultMultiplier == 4
SimpleMultiplier == 4
DisplayCap == 1300

(***************************************************************************)
(* Bounds of the model.                                                    *)
(***************************************************************************)
\* largest number of pixels of a materialised source image
MaxSrcArea == 4
\* largest pixel-art width and display width handed to the transform in
\* SpecT; 4 and 6 give the first fractional scale (3/2) at which a display
\* column starts exactly on a cell edge
MaxTargetWidth == 4
MaxDisplayWidth == 6
\* largest pixel-art height and display height handed to the transform in
\* SpecT
MaxTargetHeight == 2
MaxDisplayHeight == 3

Min(a, b) == IF a <= b THEN a ELSE b
Max(a, b) == IF a >= b THEN a ELSE b

(***************************************************************************)
(* Buffers.  A numpy array is a record: id is the identity of the          *)
(* allocation, shape its numpy shape <<height, width, channels>> (or       *)
(* <<height, width>>), px the pixel rows (<<>> when the payload is not     *)
(* materialised), expr the expression its contents were computed by.       *)
(***************************************************************************)
NoBuf == [id |-> 0, shape |-> <<>>, px |-> <<>>, expr |-> <<>>]

Materialised(img) == img.px # <<>>

(***************************************************************************)
(* cv2.resize kernels on materialised pixels.  A pixel is a tuple of       *)
(* channel values 0..255; rows are indexed 1..height, columns 1..width.    *)
(* Coordinates d, s below are 0-based as in OpenCV.                        *)
(***************************************************************************)

\* Nearest integer of num/den (den > 0, num >= 0), as saturate_cast<uchar>.
RoundDiv(num, den) == (2 * num + den) \div (2 * den)

\* INTER_NEAREST: source index of destination index d in exact arithmetic,
\* min(floor(d * ssize / dsize), ssize - 1).
NearestIdx(d, ssize, dsize) == Min((d * ssize) \div dsize, ssize - 1)

\* OpenCV computes the index as floor(d * (1. / (dsize / ssize))) in double
\* precision.  At a whole scale (dsize a multiple of ssize, up to 20) the
\* product is exact.  At a fractional scale a destination index d whose
\* exact quotient d * ssize / dsize is a whole number can come out just
\* below it (for 70 -> 1300 the double floor(130 * (1. / (1300. / 70)))
\* is 6, the exact quotient 7): these indices may fall to the previous
\* cell.
NearestBoundaries(ssize, dsize) ==
    IF dsize % ssize = 0 THEN {}
    ELSE { d \in 1..(dsize - 1) : (d * ssize) % dsize = 0 }

\* The index maps INTER_NEAREST can compute for one axis.
NearestIndexMaps(ssize, dsize) ==
    { [d \in 0..(dsize - 1) |->
          IF d \in J THEN NearestIdx(d, ssize, dsize) - 1
          ELSE NearestIdx(d, ssize, dsize)] :
        J \in SUBSET NearestBoundaries(ssize, dsize) }

\* A plausible slip: a source cell counts whole as soon as it touches the
\* destination cell.
OverlapWhole(d, s, ssize, dsize) ==
    IF Min((d + 1) * ssize, (s + 1) * dsize) > Max(d * ssize, s * dsize)
    THEN dsize ELSE 0

\* INTER_AREA, shrinking axis: overlap of destination cell d with source
\* cell s, on the grid where a source cell is dsize long and a destination
\* cell ssize long.
Overlap(d, s, ssize, dsize) ==
    Max(0, Min((d + 1) * ssize, (s + 1) * dsize) - Max(d * ssize, s * dsize))

\* One axis of a resampling: the weight of every source index s for the
\* destination index d; the weights of one destination index sum to ssize.
\* Shrinking both axes: the overlaps of the area relation.
AreaWeights(d, ssize, dsize) ==
    [s \in 0..(ssize - 1) |-> Overlap(d, s, ssize, dsize)]

\* INTER_AREA when an axis is enlarged: OpenCV falls back to its two-tap
\* linear kernel with area coefficients,
\*   sx = floor(d * scale), fx = (d+1) - (sx+1) * inv_scale,
\*   fx = fx <= 0 ? 0 : fx - floor(fx); sx >= ssize-1 => fx = 0, sx = ssize-1
\* with fx kept as the exact fraction fx / ssize: source sx weighs
\* ssize - fx and source sx + 1 weighs fx.
LinearAreaWeights(d, ssize, dsize) ==
    LET sx0 == (d * ssize) \div dsize
        raw == (d + 1) * ssize - (sx0 + 1) * dsize
        fx0 == IF raw <= 0 THEN 0 ELSE raw % ssize
        sx == IF sx0 >= ssize - 1 THEN ssize - 1 ELSE sx0
        fx == IF sx0 >= ssize - 1 THEN 0 ELSE fx0
    IN  [s \in 0..(ssize - 1) |->
            IF s = sx THEN ssize - fx ELSE IF s = sx + 1 THEN fx ELSE 0]

\* The weighted mean of channel c of the sw x sh pixel rows px under the
\* axis weights wx, wy, rounded to the nearest channel value.
WeightedMean(px, c, wx, wy, sw, sh) ==
    LET S[k \in 0..(sw * sh)] ==
            IF k = 0 THEN 0
            ELSE LET sx == (k - 1) % sw
                     sy == (k - 1) \div sw
                 IN  wx[sx] * wy[sy] * px[sy + 1][sx + 1][c] + S[k - 1]
    IN  RoundDiv(S[sw * sh], sw * sh)

\* cv2.resize(..., interpolation=cv2.INTER_AREA) on pixel rows px of size
\* sw x sh with ch channels, to w x h.
AreaPixels(px, sw, sh, ch, w, h) ==
    LET shrink == sw >= w /\ sh >= h
        WX(dx) == IF shrink THEN AreaWeights(dx, sw, w)
                  ELSE LinearAreaWeights(dx, sw, w)
        WY(dy) == IF shrink THEN AreaWeights(dy, sh, h)
                  ELSE LinearAreaWeights(dy, sh, h)
    IN  [y \in 1..h |-> [x \in 1..w |->
            [c \in 1..ch |->
                WeightedMean(px, c, WX(x - 1), WY(y - 1), sw, sh)]]]

\* A plausible slip: the upsample blends each pixel with its right-hand
\* neighbour, as a linear kernel does.
BlendedPixels(px, sw, sh, w, h) ==
    { [y \in 1..h |-> [x \in 1..w |->
        LET sy == NearestIdx(y - 1, sh, h) + 1
            sx == NearestIdx(x - 1, sw, w) + 1
            nx == Min(sx + 1, sw)
        IN  [c \in DOMAIN px[sy][sx] |->
                RoundDiv(px[sy][sx][c] + px[sy][nx][c], 2)]]] }

\* cv2.resize(..., interpolation=cv2.INTER_NEAREST): every destination
\* pixel copies one source pixel; the set of pixel rows the call can give.
NearestPixels(px, sw, sh, w, h) ==
    { [y \in 1..h |-> [x \in 1..w |-> px[fy[y - 1] + 1][fx[x - 1] + 1]]] :
        fx \in NearestIndexMaps(sw, w), fy \in NearestIndexMaps(sh, h) }


(***************************************************************************)
(* The calls of create_perfect_pixel_art.                                  *)
(***************************************************************************)

\* A plausible slip: dsize handed over as (height, width).
cv2_resize_swapped(img, w, h, interpolation, id) ==
    { [id |-> id,
       shape |-> <<w, h, img.shape[3]>>,
       px |-> <<>>,
       expr |-> <<interpolation, h, w, img.expr>>] }

\* cv2.resize(img, (w, h), interpolation=...): a new array of h rows and
\* w columns with the channels of img; the set of arrays the call can give.
cv2_resize(img, w, h, interpolation, id) ==
    LET pixels ==
            IF ~Materialised(img) THEN { <<>> }
            ELSE IF interpolation = "INTER_AREA"
                 THEN { AreaPixels(img.px, img.shape[2], img.shape[1],
                                   img.shape[3], w, h) }
                 ELSE NearestPixels(img.px, img.shape[2], img.shape[1], w, h)
    IN  { [id |-> id,
           shape |-> <<h, w, img.shape[3]>>,
           px |-> p,
           expr |-> <<interpolation, w, h, img.expr>>] : p \in pixels }

\* A plausible slip: display_img = pixel_art, the same array.
ndarray_alias(img, id) == img

\* ndarray.copy(): a new array with the shape and the contents of img.
ndarray_copy(img, id) == [img EXCEPT !.id = id]

\* create_perfect_pixel_art(img, target_width, target_height,
\*                          display_width, display_height)
\* the pairs <<pixel_art, display_img>> the call can return.
create_perfect_pixel_art(img, target_width, target_height, display_width, display_height) ==
    LET Step2(pixel_art) ==
            IF display_width # target_width \/ display_height # target_height
            THEN cv2_resize(pixel_art, display_width, display_height,
                            "INTER_NEAREST", img.id + 2)
            ELSE { ndarray_copy(pixel_art, img.id + 2) }
    IN  UNION { { <<pixel_art, display_img>> :
                    display_img \in Step2(pixel_art) } :
                pixel_art \in cv2_resize(img, target_width, target_height,
                                         "INTER_AREA", img.id + 1) }


(***************************************************************************)
(* The upload: decode and alpha flatten (lines 15-24).                     *)
(***************************************************************************)
NoFile == [format |-> "none", width |-> 0, height |-> 0]

\* PIL modes of a decodable upload and the shape np.array gives each:
\* L is <<h, w>>, LA <<h, w, 2>>, RGB <<h, w, 3>>, RGBA <<h, w, 4>>.
DecodableModes == {"L", "LA", "RGB", "RGBA"}

ModeChannels(m) ==
    CASE m = "L" -> 1 [] m = "LA" -> 2 [] m = "RGB" -> 3 [] m = "RGBA" -> 4

\* The uploads of the application model: one file that is no valid image
\* and, of every mode, a 1 x 1 and a 1920 x 1080 image.
UploadSizes == { <<1, 1>>, <<1920, 1080>> }

Files ==
    { [format |-> "corrupt", width |-> 0, height |-> 0] }
    \cup { [format |-> m, width |-> sz[1], height |-> sz[2]] :
             m \in DecodableModes, sz \in UploadSizes }

\* A plausible slip: a file that does not decode is replaced by a blank
\* image instead of ending the run.
LoadImageOrBlank(file) ==
    [raised |-> FALSE,
     img |-> [id |-> 1,
              shape |-> IF file.format = "L"
                        THEN <<file.height, file.width>>
                        ELSE IF file.format = "corrupt" THEN <<1, 1, 3>>
                        ELSE <<file.height, file.width,
                               ModeChannels(file.format)>>,
              px |-> <<>>,
              expr |-> <<"np.array", file.format,
                         file.width, file.height>>]]

\* Image.open(uploaded_file); np.array(image): the array, or the exception
\* the decoder raises for a file that is no valid image.
LoadImage(file) ==
    IF file.format = "corrupt"
    THEN [raised |-> TRUE, img |-> NoBuf]
    ELSE [raised |-> FALSE,
          img |-> [id |-> 1,
                   shape |-> IF file.format = "L"
                             THEN <<file.height, file.width>>
                             ELSE <<file.height, file.width,
                                    ModeChannels(file.format)>>,
                   px |-> <<>>,
                   expr |-> <<"np.array", file.format,
                              file.width, file.height>>]]

\* cv2.cvtColor(img_array, cv2.COLOR_RGBA2RGB): a new array holding the
\* first three channels.
cvtColor_RGBA2RGB(img) ==
    [id |-> img.id + 1,
     shape |-> <<img.shape[1], img.shape[2], 3>>,
     px |-> IF ~Materialised(img) THEN <<>>
            ELSE [y \in 1..img.shape[1] |-> [x \in 1..img.shape[2] |->
                     SubSeq(img.px[y][x], 1, 3)]],
     expr |-> <<"COLOR_RGBA2RGB", img.expr>>]

\* Lines 23-24: img_array.shape[2] raises IndexError on a 2-dimensional
\* array; a 4-channel array is converted, any other is kept.
AlphaFlatten(img) ==
    IF Len(img.shape) < 3
    THEN [raised |-> TRUE, img |-> img]
    ELSE [raised |-> FALSE,
          img |-> IF img.shape[3] = 4 THEN cvtColor_RGBA2RGB(img) ELSE img]

\* st.image(img_array, ...) at line 31: whether the call can raise.  The
\* widget is the UI framework's; for an array whose channel count is not
\* 1, 3 or 4 both outcomes are allowed.
StImageRaises(img) ==
    IF img.shape[3] \in {1, 3, 4} THEN {FALSE} ELSE {FALSE, TRUE}

(***************************************************************************)
(* The controls and the dimension resolver (lines 40-100).                 *)
(***************************************************************************)
Modes == {"Simple Mode", "Advanced Mode"}

Presets ==
    {"Custom", "Tiny (32x32)", "Small (64x64)", "Medium (128x128)",
     "Large (256x256)"}

\* size_map of lines 53-58.
size_map(preset) ==
    CASE preset = "Tiny (32x32)" -> <<32, 32>>
      [] preset = "Small (64x64)" -> <<64, 64>>
      [] preset = "Medium (128x128)" -> <<128, 128>>
      [] preset = "Large (256x256)" -> <<256, 256>>

\* The values a pixel-dimension control (min_value=16, max_value=512,
\* step=2) is given in the model: the bounds, the defaults and 400.
OnPixelGrid(v) ==
    v \in MinPixels..MaxPixels /\ (v - MinPixels) % PixelStep = 0

WidthValues == { v \in {MinPixels, DefaultWidth, 400, MaxPixels} : OnPixelGrid(v) }

HeightValues == { v \in {MinPixels, DefaultHeight, MaxPixels} : OnPixelGrid(v) }

\* The values the multiplier slider (min_value=1, max_value=20) is given.
MultiplierValues == {MinMultiplier, DefaultMultiplier, MaxMultiplier}

\* min(pixel_width * multiplier, 1300) of lines 63-64 and 99-100.
DisplaySize(pixels, multiplier) == Min(pixels * multiplier, DisplayCap)

\* A plausible slip: the preset branch reads the sliders.
SimplePixelsFromSliders(ctl) == <<ctl.simple_width, ctl.simple_height>>

\* Lines 49-60: the pixel dimensions of Simple Mode.
SimplePixels(ctl) ==
    IF ctl.preset = "Custom"
    THEN <<ctl.simple_width, ctl.simple_height>>
    ELSE size_map(ctl.preset)

\* A plausible slip: Simple Mode scales by the Advanced slider.
SimpleModeBySlider(ctl) ==
    LET p == SimplePixels(ctl)
    IN  [pixel_width |-> p[1], pixel_height |-> p[2],
         display_width |-> DisplaySize(p[1], ctl.pixel_size),
         display_height |-> DisplaySize(p[2], ctl.pixel_size)]

\* Lines 42-64.
SimpleMode(ctl) ==
    LET p == SimplePixels(ctl)
    IN  [pixel_width |-> p[1], pixel_height |-> p[2],
         display_width |-> DisplaySize(p[1], SimpleMultiplier),
         display_height |-> DisplaySize(p[2], SimpleMultiplier)]

\* Lines 66-100.
AdvancedMode(ctl) ==
    [pixel_width |-> ctl.adv_width, pixel_height |-> ctl.adv_height,
     display_width |-> DisplaySize(ctl.adv_width, ctl.pixel_size),
     display_height |-> DisplaySize(ctl.adv_height, ctl.pixel_size)]

\* Lines 40-100: the four resolved dimensions.
ResolveDimensions(ctl) ==
    IF ctl.mode = "Simple Mode" THEN SimpleMode(ctl) ELSE AdvancedMode(ctl)


(***************************************************************************)
(* One run of the script.                                                  *)
(***************************************************************************)
VARIABLES
    uploaded_file,   \* the file in the uploader, NoFile when there is none
    widgets,         \* the value of every control, rendered or not
    status,          \* how the last run ended: waiting, done or error
    img_array,       \* the array handed to create_perfect_pixel_art
    pixel_width, pixel_height, display_width, display_height,
    pixel_art, display_img,   \* what create_perfect_pixel_art returned
    downloads,       \* the download buttons of the last run
    stats            \* the metrics of the last run

vars == <<uploaded_file, widgets, status, img_array, pixel_width,
          pixel_height, display_width, display_height, pixel_art,
          display_img, downloads, stats>>

DefaultWidgets ==
    [mode |-> "Simple Mode", preset |-> "Custom",
     simple_width |-> DefaultWidth, simple_height |-> DefaultHeight,
     adv_width |-> DefaultWidth, adv_height |-> DefaultHeight,
     pixel_size |-> DefaultMultiplier]

NoStats == [orig |-> <<>>, pixel |-> <<>>, reduction |-> <<>>]

\* A run that produced nothing past the upload: the else branch of line
\* 181 (waiting) or an uncaught exception, which ends the run (error).
Stopped(how) ==
    [status |-> how, img_array |-> NoBuf,
     pixel_width |-> 0, pixel_height |-> 0,
     display_width |-> 0, display_height |-> 0,
     pixel_art |-> NoBuf, display_img |-> NoBuf,
     downloads |-> {}, stats |-> NoStats]

\* Lines 33-179 for the array img: resolve, transform, show, offer the
\* two downloads and the metrics; one outcome per result of the transform.
Rendered(img, ctl) ==
    LET d == ResolveDimensions(ctl)
        orig_height == img.shape[1]
        orig_width == img.shape[2]
    IN  {[status |-> "done", img_array |-> img,
         pixel_width |-> d.pixel_width, pixel_height |-> d.pixel_height,
         display_width |-> d.display_width,
         display_height |-> d.display_height,
         pixel_art |-> r[1], display_img |-> r[2],
         downloads |->
            { [file_name |-> <<"pixel_art", d.pixel_width, d.pixel_height>>,
               data |-> r[1].id],
              [file_name |-> <<"pixel_art_display", d.display_width,
                               d.display_height>>,
               data |-> r[2].id] },
         stats |-> [orig |-> <<orig_width, orig_height>>,
                    pixel |-> <<d.pixel_width, d.pixel_height>>,
                    reduction |-> <<orig_width * orig_height,
                                    d.pixel_width * d.pixel_height>>]] :
          r \in create_perfect_pixel_art(img, d.pixel_width, d.pixel_height,
                                         d.display_width, d.display_height) }

\* The outcomes of one run of the script on the uploaded file and the
\* control values.
RunScript(file, ctl) ==
    IF file = NoFile THEN { Stopped("waiting") }
    ELSE LET ld == LoadImage(file)
         IN  IF ld.raised THEN { Stopped("error") }
             ELSE LET fl == AlphaFlatten(ld.img)
                  IN  IF fl.raised THEN { Stopped("error") }
                      ELSE UNION { IF raises THEN { Stopped("error") }
                                   ELSE Rendered(fl.img, ctl) :
                                     raises \in StImageRaises(fl.img) }

\* The controls a run that ended with status st rendered.
RenderedWidgets(st, ctl) ==
    IF st # "done" THEN {}
    ELSE {"mode"} \cup
         ( IF ctl.mode = "Simple Mode"
           THEN {"preset"} \cup ( IF ctl.preset = "Custom"
                                  THEN {"simple_width", "simple_height"}
                                  ELSE {} )
           ELSE {"adv_width", "adv_height", "pixel_size"} )

\* The values the framework holds after a run: a control the run did not
\* render keeps its value or returns to its default (the two behaviours a
\* UI framework can have; the script does not decide it).
AfterRun(st, ctl) ==
    { ctl,
      [w \in DOMAIN ctl |->
          IF w \in RenderedWidgets(st, ctl) THEN ctl[w]
          ELSE DefaultWidgets[w]] }

\* One interaction: the file and the control values it leaves, followed by
\* the run of the script.
Rerun(file, ctl) ==
    \E o \in RunScript(file, ctl) :
        /\ uploaded_file' = file
        /\ widgets' \in AfterRun(o.status, ctl)
        /\ status' = o.status
        /\ img_array' = o.img_array
        /\ pixel_width' = o.pixel_width
        /\ pixel_height' = o.pixel_height
        /\ display_width' = o.display_width
        /\ display_height' = o.display_height
        /\ pixel_art' = o.pixel_art
        /\ display_img' = o.display_img
        /\ downloads' = o.downloads
        /\ stats' = o.stats

Init ==
    /\ uploaded_file = NoFile
    /\ widgets = DefaultWidgets
    /\ status = "waiting"
    /\ img_array = NoBuf
    /\ pixel_width = 0 /\ pixel_height = 0
    /\ display_width = 0 /\ display_height = 0
    /\ pixel_art = NoBuf /\ display_img = NoBuf
    /\ downloads = {}
    /\ stats = NoStats

Shown(w) == w \in RenderedWidgets(status, widgets)

\* st.file_uploader: a file is put into the uploader.
Upload == \E f \in Files : Rerun(f, widgets)

\* st.file_uploader: the file is removed.
RemoveUpload == uploaded_file # NoFile /\ Rerun(NoFile, widgets)

\* st.radio of line 40.
SetMode ==
    /\ Shown("mode")
    /\ \E m \in Modes : Rerun(uploaded_file, [widgets EXCEPT !.mode = m])

\* st.selectbox of lines 44-47.
SetPreset ==
    /\ Shown("preset")
    /\ \E p \in Presets : Rerun(uploaded_file, [widgets EXCEPT !.preset = p])

\* st.slider of line 50.
SetSimpleWidth ==
    /\ Shown("simple_width")
    /\ \E v \in WidthValues :
          Rerun(uploaded_file, [widgets EXCEPT !.simple_width = v])

\* st.slider of line 51.
SetSimpleHeight ==
    /\ Shown("simple_height")
    /\ \E v \in HeightValues :
          Rerun(uploaded_file, [widgets EXCEPT !.simple_height = v])

\* st.number_input of lines 71-78.
SetAdvWidth ==
    /\ Shown("adv_width")
    /\ \E v \in WidthValues :
          Rerun(uploaded_file, [widgets EXCEPT !.adv_width = v])

\* st.number_input of lines 79-86.
SetAdvHeight ==
    /\ Shown("adv_height")
    /\ \E v \in HeightValues :
          Rerun(uploaded_file, [widgets EXCEPT !.adv_height = v])

\* st.slider of lines 90-97.
SetPixelSize ==
    /\ Shown("pixel_size")
    /\ \E v \in MultiplierValues :
          Rerun(uploaded_file, [widgets EXCEPT !.pixel_size = v])

Next ==
    \/ Upload
    \/ RemoveUpload
    \/ SetMode
    \/ SetPreset
    \/ SetSimpleWidth
    \/ SetSimpleHeight
    \/ SetAdvWidth
    \/ SetAdvHeight
    \/ SetPixelSize

Spec == Init /\ [][Next]_vars

(***************************************************************************)
(* create_perfect_pixel_art on materialised images: the call of lines      *)
(* 121-123 with a small source image whose pixels are kept, for every      *)
(* pixel-art size up to MaxTargetWidth x MaxTargetHeight and every display *)
(* size from the pixel-art size up to MaxDisplayWidth x MaxDisplayHeight   *)
(* (whole and fractional scales, as the multiplier and the cap of the      *)
(* resolver produce them).                                                 *)
(***************************************************************************)
Colours == { <<0, 0, 0>>, <<255, 128, 7>> }

SourceShapes ==
    { sz \in (1..MaxSrcArea) \X (1..MaxSrcArea) : sz[1] * sz[2] <= MaxSrcArea }

SourceImages ==
    UNION { { [id |-> 1, shape |-> <<sz[2], sz[1], 3>>, px |-> p,
               expr |-> <<"source">>] :
                p \in [1..sz[2] -> [1..sz[1] -> Colours]] } :
            sz \in SourceShapes }

InitT ==
    /\ uploaded_file = NoFile
    /\ widgets = DefaultWidgets
    /\ status = "input"
    /\ img_array \in SourceImages
    /\ pixel_width \in 1..MaxTargetWidth
    /\ pixel_height \in 1..MaxTargetHeight
    /\ display_width \in pixel_width..MaxDisplayWidth
    /\ display_height \in pixel_height..MaxDisplayHeight
    /\ pixel_art = NoBuf /\ display_img = NoBuf
    /\ downloads = {}
    /\ stats = NoStats

\* Lines 121-123: the call.
Transform ==
    /\ status = "input"
    /\ \E r \in create_perfect_pixel_art(img_array, pixel_width,
                    pixel_height, display_width, display_height) :
           /\ pixel_art' = r[1]
           /\ display_img' = r[2]
    /\ status' = "done"
    /\ UNCHANGED <<uploaded_file, widgets, img_array, pixel_width,
                   pixel_height, display_width, display_height, downloads,
                   stats>>

NextT == Transform

SpecT == InitT /\ [][NextT]_vars

(***************************************************************************)
(* Properties.                                                             *)
(***************************************************************************)
Done == status = "done"

\* Whether the last run took the upsample branch of line 114.
Upsampled == display_img.expr[1] = "INTER_NEAREST"

\* C1: whenever create_perfect_pixel_art has returned, pixel_art has
\* exactly pixel_height rows and pixel_width columns and display_img has
\* exactly display_height rows and display_width columns, in the upsample
\* branch and in the copy branch.
C1_OutputSizes ==
    Done =>
        /\ Len(pixel_art.shape) = 3 /\ Len(display_img.shape) = 3
        /\ pixel_art.shape[1] = pixel_height
        /\ pixel_art.shape[2] = pixel_width
        /\ display_img.shape[1] = display_height
        /\ display_img.shape[2] = display_width

\* C1 witness: an upsampled result whose width is capped and whose height
\* is not, from a pixel art that is not square.
C1_Witness ==
    /\ Done /\ Upsampled
    /\ pixel_width = 400 /\ pixel_height = 120
    /\ display_width = 1300 /\ display_height = 480

\* C2: after any sequence of interactions the display size is
\* min(pixel size * m, 1300) on both axes, with m = 4 in Simple Mode
\* whatever the multiplier slider holds, and m the slider's value, within
\* 1..20, in Advanced Mode; 90 at m = 4 gives 360, 400 at m = 20 gives 1300.
C2_DisplaySize ==
    Done =>
        LET m == IF widgets.mode = "Simple Mode" THEN 4
                 ELSE widgets.pixel_size
        IN  /\ m \in 1..20
            /\ display_width =
                 (IF pixel_width * m < 1300 THEN pixel_width * m ELSE 1300)
            /\ display_height =
                 (IF pixel_height * m < 1300 THEN pixel_height * m ELSE 1300)
            /\ (pixel_width = 90 /\ m = 4 => display_width = 360)
            /\ (pixel_width = 400 /\ m = 20 => display_width = 1300)

\* C2 witness: Simple Mode at 90 wide shows 360 while the multiplier
\* slider still holds 20 from an earlier stay in Advanced Mode.
C2_Witness ==
    /\ Done
    /\ widgets.mode = "Simple Mode" /\ widgets.pixel_size = 20
    /\ pixel_width = 90 /\ display_width = 360

\* C4: in every result each display pixel has the colour of one pixel-art
\* cell, the cell whose block holds it: cell c of an axis owns the display
\* indices d with c*dsize <= d*ssize < (c+1)*dsize.  Every display pixel of
\* the block of a cell has the cell's colour, where a pixel that starts
\* exactly on the left or top edge of its block at a fractional scale may
\* instead belong to the previous cell of that axis; every block keeps a
\* pixel of its cell's colour, and no display pixel has a colour absent
\* from pixel_art.
Block(c, ssize, dsize) ==
    { d \in 0..(dsize - 1) : c * dsize <= d * ssize /\ d * ssize < (c + 1) * dsize }

\* The cells display index d can show: its own and, on an edge at a
\* fractional scale, the previous one.
CellsOf(d, ssize, dsize) ==
    { c \in 0..(ssize - 1) :
        \/ d \in Block(c, ssize, dsize)
        \/ /\ dsize % ssize # 0
           /\ d * ssize = (c + 1) * dsize }

C4_BlockFlat ==
    Done =>
        /\ \A dy \in 0..(display_height - 1), dx \in 0..(display_width - 1) :
              \E cy \in CellsOf(dy, pixel_height, display_height),
                 cx \in CellsOf(dx, pixel_width, display_width) :
                  display_img.px[dy + 1][dx + 1] = pixel_art.px[cy + 1][cx + 1]
        /\ \A cy \in 0..(pixel_height - 1), cx \in 0..(pixel_width - 1) :
              /\ \E dy \in Block(cy, pixel_height, display_height),
                    dx \in Block(cx, pixel_width, display_width) :
                    display_img.px[dy + 1][dx + 1] = pixel_art.px[cy + 1][cx + 1]
              /\ \A dy \in Block(cy, pixel_height, display_height),
                    dx \in Block(cx, pixel_width, display_width) :
                    (/\ CellsOf(dy, pixel_height, display_height) = {cy}
                     /\ CellsOf(dx, pixel_width, display_width) = {cx})
                    => display_img.px[dy + 1][dx + 1]
                         = pixel_art.px[cy + 1][cx + 1]
        /\ \A dy \in 1..display_height, dx \in 1..display_width :
              \E cy \in 1..pixel_height, cx \in 1..pixel_width :
                  display_img.px[dy][dx] = pixel_art.px[cy][cx]

\* C4 witness: a result at the fractional scale 6/4 whose cells 2 and 3
\* differ in colour and whose display column 4, which starts on the edge
\* between them, shows cell 2.
C4_Witness ==
    /\ Done /\ Materialised(display_img)
    /\ pixel_width = 4 /\ display_width = 6
    /\ pixel_art.px[1][2] # pixel_art.px[1][3]
    /\ display_img.px[1][4] = pixel_art.px[1][2]
    /\ display_img.px[1][5] = pixel_art.px[1][3]

\* C5: every pixel-art cell is shown as a square block of one size: the
\* horizontal scale display_width / pixel_width is a whole number and
\* equals the vertical scale display_height / pixel_height.
C5_SquareBlocks ==
    Done =>
        /\ display_width * pixel_height = display_height * pixel_width
        /\ display_width % pixel_width = 0
        /\ display_height % pixel_height = 0

\* C6: for a source image of one colour c, every pixel of pixel_art and
\* every pixel of display_img is c.
Solid(img) ==
    \A y \in 1..img.shape[1], x \in 1..img.shape[2] :
        img.px[y][x] = img.px[1][1]

C6_SolidColour ==
    (Done /\ Solid(img_array)) =>
        /\ \A y \in 1..pixel_height, x \in 1..pixel_width :
              pixel_art.px[y][x] = img_array.px[1][1]
        /\ \A y \in 1..display_height, x \in 1..display_width :
              display_img.px[y][x] = img_array.px[1][1]

\* C6 witness: a 3 x 1 source of the colour (255, 128, 7) averaged down to
\* 2 x 1, a scale that is no whole number.
C6_Witness ==
    /\ Done /\ Materialised(img_array) /\ Solid(img_array)
    /\ img_array.shape = <<1, 3, 3>>
    /\ img_array.px[1][1] = <<255, 128, 7>>
    /\ pixel_width = 2 /\ pixel_height = 1

\* C7: for every upload that decodes, whatever its channel layout, the run
\* hands create_perfect_pixel_art an array of exactly 3 channels.
C7_ThreeChannels ==
    (uploaded_file # NoFile /\ uploaded_file.format \in DecodableModes) =>
        /\ Done
        /\ Len(img_array.shape) = 3
        /\ img_array.shape[3] = 3

\* C8: while the uploaded file does not decode, the run has ended in the
\* error state with no resolved dimension, no result, no download and no
\* metric; and the run that follows it with an upload that decodes to 3 or
\* 4 channels ends done with all of them.
NothingProduced ==
    /\ img_array = NoBuf
    /\ pixel_width = 0 /\ pixel_height = 0
    /\ display_width = 0 /\ display_height = 0
    /\ pixel_art = NoBuf /\ display_img = NoBuf
    /\ downloads = {} /\ stats = NoStats

DecodeFailed == uploaded_file # NoFile /\ uploaded_file.format = "corrupt"

C8_DecodeError ==
    /\ [](DecodeFailed => (status = "error" /\ NothingProduced))
    /\ [][(DecodeFailed /\ uploaded_file'.format \in {"RGB", "RGBA"}) =>
            (/\ status' = "done"
             /\ pixel_art' # NoBuf /\ display_img' # NoBuf
             /\ Cardinality(downloads') = 2
             /\ stats' # NoStats)]_vars

\* C8 witness: the error state of a file that does not decode, reached
\* after a run that had rendered a result is gone.
C8_Witness ==
    /\ DecodeFailed /\ status = "error" /\ NothingProduced
    /\ widgets.mode = "Advanced Mode"

\* C9: in Simple Mode with a preset other than Custom the pixel size is
\* the preset's pair, whatever the Custom sliders, the Advanced inputs and
\* the multiplier slider hold.
C9_PresetPair ==
    (Done /\ widgets.mode = "Simple Mode" /\ widgets.preset # "Custom") =>
        /\ pixel_width = pixel_height
        /\ pixel_width =
             (CASE widgets.preset = "Tiny (32x32)" -> 32
                [] widgets.preset = "Small (64x64)" -> 64
                [] widgets.preset = "Medium (128x128)" -> 128
                [] widgets.preset = "Large (256x256)" -> 256)

\* C9 witness: Medium resolves to 128 x 128 while every other control
\* holds a value of its own.
C9_Witness ==
    /\ Done
    /\ widgets.mode = "Simple Mode" /\ widgets.preset = "Medium (128x128)"
    /\ widgets.simple_width = 400 /\ widgets.simple_height = 16
    /\ widgets.adv_width = 512 /\ widgets.adv_height = 512
    /\ widgets.pixel_size = 20
    /\ pixel_width = 128 /\ pixel_height = 128

\* C10: the upsample runs exactly when the display size differs from the
\* pixel-art size; otherwise, which happens only at multiplier 1 in
\* Advanced Mode, display_img has the shape and the contents of pixel_art;
\* in both cases display_img and pixel_art are different arrays.
C10_IndependentCopy ==
    Done =>
        /\ Upsampled <=>
             (display_width # pixel_width \/ display_height # pixel_height)
        /\ ~Upsampled =>
             /\ widgets.mode = "Advanced Mode" /\ widgets.pixel_size = 1
             /\ display_img.shape = pixel_art.shape
             /\ display_img.expr = pixel_art.expr
             /\ display_img.px = pixel_art.px
        /\ display_img.id # pixel_art.id
        /\ display_img.id # img_array.id /\ pixel_art.id # img_array.id

\* C10 witness: a result of the copy branch.
C10_Witness ==
    /\ Done /\ ~Upsampled
    /\ display_width = pixel_width /\ display_height = pixel_height

=============================================================================
